---- MODULE Spec2Model ----
(***************************************************************************)
(* Swarm orchestrator (orchestrate.py): the worker registry SWARM, the     *)
(* remote executor execute_on_worker (streaming and captured mode) and the *)
(* parallel dispatcher execute_parallel with its worker_task threads.      *)
(*                                                                         *)
(* One executor invocation runs per worker at a time, so an invocation is  *)
(* named by the id of its worker.  The remote process behind an invocation *)
(* (ssh and the command it runs) is an environment actor of its own: it    *)
(* prints lines into its pipes, closes them and exits when it pleases.     *)
(*                                                                         *)
(* Text is kept at line granularity: a text is the sequence of its lines.  *)
(* sys.stdout is recorded as what each writer has written to it, in that   *)
(* writer's order (console).  One write() call is one chunk: print(x) is   *)
(* the write of x followed by the write of its end, "\n" unless end='' is  *)
(* given; another thread may run between the two.                          *)
(***************************************************************************)
EXTENDS Integers, Sequences, FiniteSets, TLC

\* ------------------------------------------------------------- bounds
\* most lines a remote command prints when execute_on_worker is called directly
MaxLines == 2

\* most lines a remote command prints under a worker task of execute_parallel
MaxTaskLines == 1

\* most lines a remote command prints under an operator-facing function
\* (sync_all, status_check, build/lint/test_on_worker, custom_command)
MaxOpLines == 1

\* ------------------------------------------------------------- registry
WorkerIds == {1, 2, 3}

\* the third entry written with the id of the second
SWARMCopyPaste ==
  [i \in WorkerIds |->
     [id |-> IF i = 3 THEN 2 ELSE i,
      ip |-> CASE i = 1 -> "164.92.118.130"
               [] i = 2 -> "147.182.243.137"
               [] OTHER -> "161.35.239.20",
      role |-> CASE i = 1 -> "Build/Error Resolution"
                 [] i = 2 -> "UX/UI and Website Builder"
                 [] OTHER -> "Infrastructure/Database",
      worktree |-> "worktree-1"]]

SWARM ==
  [i \in WorkerIds |->
     [id |-> i,
      ip |-> CASE i = 1 -> "164.92.118.130"
               [] i = 2 -> "147.182.243.137"
               [] OTHER -> "161.35.239.20",
      role |-> CASE i = 1 -> "Build/Error Resolution"
                 [] i = 2 -> "UX/UI and Website Builder"
                 [] OTHER -> "Infrastructure/Database",
      worktree |-> "worktree-1"]]

\* list(SWARM.values()): the workers in insertion order of the dict
SwarmValues == <<1, 2, 3>>

\* the main thread, as a writer of the console
Main == 0

\* number of print calls of the header block
HeaderPrints == 4

\* exit status ssh reports when the channel fails
SshError == 255

\* exit statuses of a remote command that ran
CommandCodes == {0, 1}

Commands == {"git pull origin dev"}

Fds == {"out", "err"}

\* the workers argument of execute_parallel: a selection of the registered
\* workers, listed as list(SWARM.values()) lists them
WorkerLists ==
  {SelectSeq(SwarmValues, LAMBDA x : x \in S) : S \in SUBSET WorkerIds}

\* A line is [w, n]: the n-th line the process of worker w printed; n = 0 is
\* the diagnostic ssh itself prints.  Decoding and newline translation of the
\* text layer keep the lines and their order and are not modelled.
NoLine == [w |-> 0, n |-> 0]
NoRet == <<-1, <<>>>>

VARIABLES
  registry,     \* the SWARM dict: worker id -> Worker
  entry,        \* the operator-facing function called, with its worker_id
  mpc,          \* position of the main thread
  op,           \* the call the main thread is in
  workers,      \* the workers the running call addresses (ids)
  command,      \* the command argument of the running call
  threads,      \* execute_parallel: the threads list (ids of started tasks)
  joined,       \* execute_parallel: number of threads joined so far
  results,      \* execute_parallel: the results dict
  retval,       \* what the running call returned to its caller
  pc,           \* position of each executor invocation / worker task
  stream,       \* stream_output of each invocation
  hdr,          \* header writes done by each invocation
  proc,         \* state of each invocation's remote process
  status,       \* exit status of each remote process
  pipe,         \* unread content of each process's stdout and stderr pipes
  produced,     \* every line each process printed, in the order printed
  line,         \* the loop variable `line`
  output_lines, \* the accumulator output_lines
  ret,          \* the value each invocation returned
  console,      \* what each writer wrote to sys.stdout, in its order
  now,          \* logical time since the call was made
  delay,        \* the time each worker's remote command takes to run
  ran,          \* the time each remote process has been running
  held          \* the result sets earlier calls returned, kept by the caller

vars == <<registry, entry, mpc, op, workers, command, threads, joined, results, retval, pc, stream,
          hdr, proc, status, pipe, produced, line, output_lines, ret, console,
          now, delay, ran, held>>

\* what no line of orchestrate.py changes: time and the caller's own data
envVars == <<now, delay, ran, held>>

mainVars == <<envVars, registry, entry, mpc, op, workers, command, threads, joined, results, retval>>
procVars == <<proc, status, pipe, produced>>

\* the number of earlier result sets the caller keeps
MaxHeld == 1

\* the longest time a mock command takes to run
MaxDelay == 2

\* ------------------------------------------------------------- text
\* ''.join(lines)
RECURSIVE Join(_)
Join(lines) ==
  IF lines = <<>> THEN <<>> ELSE <<Head(lines)>> \o Join(Tail(lines))

\* the four texts the header block prints (lines 69-72)
HeaderText(w, cmd) ==
  << [t |-> "rule"],
     [t |-> "worker", id |-> SWARM[w].id, ip |-> SWARM[w].ip, role |-> SWARM[w].role],
     [t |-> "command", cmd |-> cmd],
     [t |-> "rule"] >>

\* one write() call on sys.stdout by writer `by`
Write(by, chunk) ==
  console' = [console EXCEPT ![by] = Append(@, chunk)]

NoEntry == [name |-> "none", worker_id |-> <<>>]

Init ==
  /\ registry = SWARM
  /\ entry = NoEntry
  /\ mpc = "idle"
  /\ op = "none"
  /\ workers = <<>>
  /\ command = ""
  /\ threads = <<>>
  /\ joined = 0
  /\ results = <<>>
  /\ retval = <<>>
  /\ pc = [w \in WorkerIds |-> "none"]
  /\ stream = [w \in WorkerIds |-> TRUE]
  /\ hdr = [w \in WorkerIds |-> 0]
  /\ proc = [w \in WorkerIds |-> "none"]
  /\ status = [w \in WorkerIds |-> -1]
  /\ pipe = [w \in WorkerIds |-> [out |-> <<>>, err |-> <<>>]]
  /\ produced = [w \in WorkerIds |-> <<>>]
  /\ line = [w \in WorkerIds |-> NoLine]
  /\ output_lines = [w \in WorkerIds |-> <<>>]
  /\ ret = [w \in WorkerIds |-> NoRet]
  /\ console = [x \in WorkerIds \cup {Main} |-> <<>>]
  /\ now = 0
  /\ delay = [w \in WorkerIds |-> 0]
  /\ ran = [w \in WorkerIds |-> 0]
  /\ held = <<>>

\* ------------------------------------------------------------- remote process
\* The process prints one more line on fd.  Popen(stderr=STDOUT) gives the
\* process one pipe for both; subprocess.run(capture_output=True) gives it two.
PipeOf(w, fd) == IF stream[w] THEN "out" ELSE fd

LineBound ==
  IF entry.name # "none" THEN MaxOpLines
  ELSE IF op = "parallel" THEN MaxTaskLines ELSE MaxLines

Produce(w, fd) ==
  /\ proc[w] = "running"
  /\ Len(produced[w]) < LineBound
  /\ LET l == [w |-> w, n |-> Len(produced[w]) + 1]
     IN /\ produced' = [produced EXCEPT ![w] = Append(@, l)]
        /\ pipe' = [pipe EXCEPT ![w][PipeOf(w, fd)] = Append(@, l)]
  /\ UNCHANGED <<mainVars, pc, stream, hdr, proc, status, line, output_lines,
                 ret, console>>

\* ssh gives up (host unreachable, authentication rejected, channel dropped):
\* it prints its diagnostic on stderr and exits with 255
Drop(w) ==
  /\ proc[w] = "running"
  /\ LET l == [w |-> w, n |-> 0]
     IN /\ produced' = [produced EXCEPT ![w] = Append(@, l)]
        /\ pipe' = [pipe EXCEPT ![w][PipeOf(w, "err")] = Append(@, l)]
  /\ proc' = [proc EXCEPT ![w] = "exited"]
  /\ status' = [status EXCEPT ![w] = SshError]
  /\ UNCHANGED <<mainVars, pc, stream, hdr, line, output_lines, ret, console>>

\* the process closes its output and lives on
Close(w) ==
  /\ proc[w] = "running"
  /\ proc' = [proc EXCEPT ![w] = "closed"]
  /\ UNCHANGED <<mainVars, pc, stream, hdr, status, pipe, produced, line,
                 output_lines, ret, console>>

\* the remote command ends and ssh exits with its status
Exit(w, c) ==
  /\ proc[w] \in {"running", "closed"}
  /\ proc' = [proc EXCEPT ![w] = "exited"]
  /\ status' = [status EXCEPT ![w] = c]
  /\ UNCHANGED <<mainVars, pc, stream, hdr, pipe, produced, line, output_lines,
                 ret, console>>

\* ------------------------------------------------------------- execute_on_worker
\* lines 69-72: four print calls, each the write of its text and of "\n"
HeaderChunk(w, k) ==
  IF k % 2 = 0
  THEN [by |-> w, kind |-> "text", txt |-> HeaderText(w, command)[(k \div 2) + 1]]
  ELSE [by |-> w, kind |-> "nl"]

\* the block cut short after its first separator
PrintHeaderShort(w) ==
  /\ pc[w] = "header"
  /\ Write(w, HeaderChunk(w, hdr[w]))
  /\ hdr' = [hdr EXCEPT ![w] = @ + 1]
  /\ pc' = [pc EXCEPT ![w] = IF hdr[w] + 1 = 2 THEN "popen" ELSE "header"]
  /\ UNCHANGED <<mainVars, stream, procVars, line, output_lines, ret>>

PrintHeader(w) ==
  /\ pc[w] = "header"
  /\ Write(w, HeaderChunk(w, hdr[w]))
  /\ hdr' = [hdr EXCEPT ![w] = @ + 1]
  /\ pc' = [pc EXCEPT ![w] =
              IF hdr[w] + 1 = 2 * HeaderPrints THEN "popen" ELSE "header"]
  /\ UNCHANGED <<mainVars, stream, procVars, line, output_lines, ret>>

\* stream_output ignored: the streaming branch taken in both modes
PopenAlwaysStream(w) ==
  /\ pc[w] = "popen"
  /\ proc' = [proc EXCEPT ![w] = "running"]
  /\ pc' = [pc EXCEPT ![w] = "read"]
  /\ UNCHANGED <<mainVars, stream, hdr, status, pipe, produced, line,
                 output_lines, ret, console>>

\* lines 76-84 and 95: the ssh process is started
Popen(w) ==
  /\ pc[w] = "popen"
  /\ proc' = [proc EXCEPT ![w] = "running"]
  /\ pc' = [pc EXCEPT ![w] = IF stream[w] THEN "read" ELSE "communicate"]
  /\ UNCHANGED <<mainVars, stream, hdr, status, pipe, produced, line,
                 output_lines, ret, console>>

\* the launch failure caught in the task and an entry stored for it
PopenRaiseStored(w) ==
  /\ pc[w] = "popen"
  /\ pc' = [pc EXCEPT ![w] = "raised"]
  /\ results' = IF op = "parallel"
                THEN (SWARM[w].id :> NoRet) @@ results
                ELSE results
  /\ UNCHANGED <<envVars, registry, entry, mpc, op, workers, command, threads, joined,
                 retval, stream, hdr, procVars, line, output_lines, ret,
                 console>>

\* lines 76-84 and 95: the ssh program cannot be started and Popen raises OSError
PopenRaise(w) ==
  /\ pc[w] = "popen"
  /\ pc' = [pc EXCEPT ![w] = "raised"]
  /\ UNCHANGED <<mainVars, stream, hdr, procVars, line, output_lines, ret,
                 console>>

\* the line taken from the pipe goes to the accumulator unprinted
ReadLineUnprinted(w) ==
  /\ pc[w] = "read"
  /\ pipe[w].out # <<>>
  /\ line' = [line EXCEPT ![w] = Head(pipe[w].out)]
  /\ pipe' = [pipe EXCEPT ![w].out = Tail(@)]
  /\ pc' = [pc EXCEPT ![w] = "append"]
  /\ UNCHANGED <<mainVars, stream, hdr, proc, status, produced, output_lines,
                 ret, console>>

\* line 87: the iterator yields the next line of the pipe
ReadLine(w) ==
  /\ pc[w] = "read"
  /\ pipe[w].out # <<>>
  /\ line' = [line EXCEPT ![w] = Head(pipe[w].out)]
  /\ pipe' = [pipe EXCEPT ![w].out = Tail(@)]
  /\ pc' = [pc EXCEPT ![w] = "print"]
  /\ UNCHANGED <<mainVars, stream, hdr, proc, status, produced, output_lines,
                 ret, console>>

\* the loop ended when the process is seen to have exited, with lines unread
ReadEOFOnExit(w) ==
  /\ pc[w] = "read"
  /\ proc[w] = "exited"
  /\ pc' = [pc EXCEPT ![w] = "wait"]
  /\ UNCHANGED <<mainVars, stream, hdr, procVars, line, output_lines, ret,
                 console>>

\* line 87: end of file ends the loop
ReadEOF(w) ==
  /\ pc[w] = "read"
  /\ pipe[w].out = <<>>
  /\ proc[w] \in {"closed", "exited"}
  /\ pc' = [pc EXCEPT ![w] = "wait"]
  /\ UNCHANGED <<mainVars, stream, hdr, procVars, line, output_lines, ret,
                 console>>

\* the prefix taken from the loop variable of the dispatcher, not from the
\* task's own worker
PrintLineLateBound(w) ==
  /\ pc[w] = "print"
  /\ Write(w, [by |-> w, kind |-> "line",
               prefix |-> SWARM[workers[Len(workers)]].id, line |-> line[w]])
  /\ pc' = [pc EXCEPT ![w] = "append"]
  /\ UNCHANGED <<mainVars, stream, hdr, procVars, line, output_lines, ret>>

\* line 88: print(f"[Worker {worker.id}] {line}", end='')
PrintLine(w) ==
  /\ pc[w] = "print"
  /\ Write(w, [by |-> w, kind |-> "line", prefix |-> SWARM[w].id, line |-> line[w]])
  /\ pc' = [pc EXCEPT ![w] = "append"]
  /\ UNCHANGED <<mainVars, stream, hdr, procVars, line, output_lines, ret>>

\* the line put in front of the accumulator
AppendLineFront(w) ==
  /\ pc[w] = "append"
  /\ output_lines' = [output_lines EXCEPT ![w] = <<line[w]>> \o @]
  /\ line' = [line EXCEPT ![w] = NoLine]
  /\ pc' = [pc EXCEPT ![w] = "read"]
  /\ UNCHANGED <<mainVars, stream, hdr, procVars, ret, console>>

\* line 89: output_lines.append(line)
AppendLine(w) ==
  /\ pc[w] = "append"
  /\ output_lines' = [output_lines EXCEPT ![w] = Append(@, line[w])]
  /\ line' = [line EXCEPT ![w] = NoLine]
  /\ pc' = [pc EXCEPT ![w] = "read"]
  /\ UNCHANGED <<mainVars, stream, hdr, procVars, ret, console>>

\* the process handle shared by the tasks: the status of the first worker's
StreamResultShared(w) == <<status[workers[1]], Join(output_lines[w])>>

\* the value of line 92: (process.returncode, ''.join(output_lines))
StreamResult(w) == <<status[w], Join(output_lines[w])>>

\* a non-zero status sends the invocation back to its first line
WaitRetry(w) ==
  /\ pc[w] = "wait"
  /\ proc[w] = "exited"
  /\ IF status[w] # 0
     THEN /\ pc' = [pc EXCEPT ![w] = "header"]
          /\ hdr' = [hdr EXCEPT ![w] = 0]
          /\ proc' = [proc EXCEPT ![w] = "none"]
          /\ status' = [status EXCEPT ![w] = -1]
          /\ pipe' = [pipe EXCEPT ![w] = [out |-> <<>>, err |-> <<>>]]
          /\ output_lines' = [output_lines EXCEPT ![w] = <<>>]
          /\ UNCHANGED ret
     ELSE /\ ret' = [ret EXCEPT ![w] = StreamResult(w)]
          /\ pc' = [pc EXCEPT ![w] = "returned"]
          /\ UNCHANGED <<hdr, proc, status, pipe, output_lines>>
  /\ UNCHANGED <<mainVars, stream, produced, line, console>>

\* poll() in the place of wait(): the return code read without waiting
WaitPoll(w) ==
  /\ pc[w] = "wait"
  /\ ret' = [ret EXCEPT ![w] = StreamResult(w)]
  /\ pc' = [pc EXCEPT ![w] = "returned"]
  /\ UNCHANGED <<mainVars, stream, hdr, procVars, line, output_lines, console>>

\* lines 91-92: process.wait() and the return
Wait(w) ==
  /\ pc[w] = "wait"
  /\ proc[w] = "exited"
  /\ ret' = [ret EXCEPT ![w] = StreamResult(w)]
  /\ pc' = [pc EXCEPT ![w] = "returned"]
  /\ UNCHANGED <<mainVars, stream, hdr, procVars, line, output_lines, console>>

\* the value of line 96: (result.returncode, result.stdout + result.stderr)
CapturedResult(w) == <<status[w], Join(pipe[w].out) \o Join(pipe[w].err)>>

\* lines 95-96: subprocess.run reads both pipes to their end, waits, returns
Communicate(w) ==
  /\ pc[w] = "communicate"
  /\ proc[w] = "exited"
  /\ ret' = [ret EXCEPT ![w] = CapturedResult(w)]
  /\ pipe' = [pipe EXCEPT ![w] = [out |-> <<>>, err |-> <<>>]]
  /\ pc' = [pc EXCEPT ![w] = "returned"]
  /\ UNCHANGED <<mainVars, stream, hdr, proc, status, produced, line,
                 output_lines, console>>

\* ------------------------------------------------------------- execute_parallel
\* the key read from the loop variable, which by then names the last worker
StoreLateBound(w) ==
  /\ op = "parallel"
  /\ pc[w] = "returned"
  /\ pc' = [pc EXCEPT ![w] = "done"]
  /\ results' = (SWARM[workers[Len(workers)]].id :> ret[w]) @@ results
  /\ UNCHANGED <<envVars, registry, entry, mpc, op, workers, command, threads, joined,
                 retval, stream, hdr, procVars, line, output_lines, ret, console>>

\* the result stored under the number of the task to finish, not the id
StoreByArrival(w) ==
  /\ op = "parallel"
  /\ pc[w] = "returned"
  /\ pc' = [pc EXCEPT ![w] = "done"]
  /\ results' = ((Cardinality(DOMAIN results) + 1) :> ret[w]) @@ results
  /\ UNCHANGED <<envVars, registry, entry, mpc, op, workers, command, threads, joined,
                 retval, stream, hdr, procVars, line, output_lines, ret, console>>

\* line 113: results[worker.id] = <what execute_on_worker returned>
Store(w) ==
  /\ op = "parallel"
  /\ pc[w] = "returned"
  /\ pc' = [pc EXCEPT ![w] = "done"]
  /\ results' = (SWARM[w].id :> ret[w]) @@ results
  /\ UNCHANGED <<envVars, registry, entry, mpc, op, workers, command, threads, joined,
                 retval, stream, hdr, procVars, line, output_lines, ret, console>>

\* the dict made once and used by every call (a default argument, a global)
ParallelEntryShared(pre, ws, cmd) ==
  /\ mpc = "idle"
  /\ op' = "parallel"
  /\ mpc' = "parallel"
  /\ workers' = ws
  /\ command' = cmd
  /\ results' = results
  /\ threads' = <<>>
  /\ joined' = 0
  /\ LET text == [by |-> Main, kind |-> "text",
                  txt |-> [t |-> "dispatching", n |-> Len(ws)]]
         nl == [by |-> Main, kind |-> "nl"]
     IN console' = [console EXCEPT ![Main] = @ \o pre \o <<text, nl>>]
  /\ UNCHANGED <<retval, pc, stream, hdr, procVars, line, output_lines, ret>>

\* lines 109-115: the empty dict, the empty list and the banner, after what
\* the calling function printed before the call (pre); the main thread is the
\* only thread running here
ParallelEntry(pre, ws, cmd) ==
  /\ mpc = "idle"
  /\ op' = "parallel"
  /\ mpc' = "parallel"
  /\ workers' = ws
  /\ command' = cmd
  /\ results' = <<>>
  /\ threads' = <<>>
  /\ joined' = 0
  /\ LET text == [by |-> Main, kind |-> "text",
                  txt |-> [t |-> "dispatching", n |-> Len(ws)]]
         nl == [by |-> Main, kind |-> "nl"]
     IN console' = [console EXCEPT ![Main] = @ \o pre \o <<text, nl>>]
  /\ UNCHANGED <<retval, pc, stream, hdr, procVars, line, output_lines, ret>>

\* execute_parallel(workers, command) called by itself
CallParallel(ws, cmd) == ParallelEntry(<<>>, ws, cmd)

\* each thread started only when the one before it has ended
StartThreadSerial ==
  /\ mpc = "parallel"
  /\ Len(threads) < Len(workers)
  /\ \A v \in {threads[k] : k \in 1..Len(threads)} : pc[v] \in {"done", "raised"}
  /\ LET w == workers[Len(threads) + 1]
     IN /\ pc' = [pc EXCEPT ![w] = "header"]
        /\ stream' = [stream EXCEPT ![w] = TRUE]
        /\ threads' = Append(threads, w)
  /\ UNCHANGED <<envVars, registry, entry, mpc, op, workers, command, joined, results,
                 retval, hdr, procVars, line, output_lines, ret, console>>

\* lines 117-120: the next thread is created, started and appended
StartThread ==
  /\ mpc = "parallel"
  /\ Len(threads) < Len(workers)
  /\ LET w == workers[Len(threads) + 1]
     IN /\ pc' = [pc EXCEPT ![w] = "header"]
        /\ stream' = [stream EXCEPT ![w] = TRUE]
        /\ threads' = Append(threads, w)
  /\ UNCHANGED <<envVars, registry, entry, mpc, op, workers, command, joined, results,
                 retval, hdr, procVars, line, output_lines, ret, console>>

\* a thread counted alive until it has stored its entry
AliveUntilStored(w) == pc[w] \notin {"none", "done"}

\* a thread is alive from start() until its target returned or raised
Alive(w) == pc[w] \notin {"none", "done", "raised"}

\* each thread joined right after its start
StartLoopDoneAfterFirst == Len(threads) > 0 \/ Len(workers) = 0

\* the first loop (lines 117-120) is over
StartLoopDone == Len(threads) = Len(workers)

\* lines 122-123: join() of the next thread returns once it is not alive
JoinThread ==
  /\ mpc = "parallel"
  /\ StartLoopDone
  /\ joined < Len(threads)
  /\ ~Alive(threads[joined + 1])
  /\ joined' = joined + 1
  /\ UNCHANGED <<envVars, registry, entry, mpc, op, workers, command, threads, results,
                 retval, pc, stream, hdr, procVars, line, output_lines, ret,
                 console>>

\* the return without the second loop
JoinLoopSkipped == StartLoopDone

\* the second loop taken to be over only after it joined some thread
JoinLoopDoneNonEmpty == StartLoopDone /\ joined = Len(threads) /\ joined > 0

\* the second loop (lines 122-123) is over
JoinLoopDone == StartLoopDone /\ joined = Len(threads)

\* the return as soon as the threads are started
ReturnParallelEarly ==
  /\ mpc = "parallel"
  /\ StartLoopDone
  /\ retval' = results
  /\ mpc' = "returned"
  /\ UNCHANGED <<envVars, registry, entry, op, workers, command, threads, joined,
                 results, pc, stream, hdr, procVars, line, output_lines, ret,
                 console>>

\* line 125: return results
ReturnParallel ==
  /\ mpc = "parallel"
  /\ JoinLoopDone
  /\ retval' = results
  /\ mpc' = "returned"
  /\ UNCHANGED <<envVars, registry, entry, op, workers, command, threads, joined,
                 results, pc, stream, hdr, procVars, line, output_lines, ret,
                 console>>

\* ------------------------------------------------------------- a direct call
\* execute_on_worker(worker, command, stream_output) called on the main thread
CallExecute(w, cmd, s) ==
  /\ mpc = "idle"
  /\ op' = "execute"
  /\ mpc' = "exec"
  /\ workers' = <<w>>
  /\ command' = cmd
  /\ pc' = [pc EXCEPT ![w] = "header"]
  /\ stream' = [stream EXCEPT ![w] = s]
  /\ UNCHANGED <<threads, joined, results, retval, hdr, procVars, line,
                 output_lines, ret, console>>

\* the call returns its tuple to the caller
ExecuteReturn ==
  /\ mpc = "exec"
  /\ pc[workers[1]] = "returned"
  /\ retval' = ret[workers[1]]
  /\ mpc' = "returned"
  /\ pc' = [pc EXCEPT ![workers[1]] = "done"]
  /\ UNCHANGED <<envVars, registry, entry, op, workers, command, threads, joined,
                 results, stream, hdr, procVars, line, output_lines, ret,
                 console>>

\* the exception of Popen leaves execute_on_worker and reaches the caller
ExecuteRaise ==
  /\ mpc = "exec"
  /\ pc[workers[1]] = "raised"
  /\ mpc' = "raised"
  /\ UNCHANGED <<envVars, registry, entry, op, workers, command, threads, joined,
                 results, retval, pc, stream, hdr, procVars, line, output_lines,
                 ret, console>>

\* ------------------------------------------------------------- operator-facing functions
\* worker ids an operator may type: the registered ones, 0 and an unknown one
InputIds == WorkerIds \cup {0, 99}

\* Optional[int]: <<>> is None, <<i>> is the int i
OptionalIds == {<<>>} \cup {<<i>> : i \in InputIds}

\* the command an operator types for custom_command
CustomCommands == {"ls"}

\* the registered workers, last registered first
RegistryListReversed ==
  LET l == SelectSeq(SwarmValues, LAMBDA x : x \in DOMAIN registry)
  IN [k \in 1..Len(l) |-> l[Len(l) + 1 - k]]

\* list(SWARM.values()): the registered workers in insertion order
RegistryList == SelectSeq(SwarmValues, LAMBDA x : x \in DOMAIN registry)

\* one print call of the main thread, as its two writes
MainPrint(what) ==
  << [by |-> Main, kind |-> "text", txt |-> [t |-> what]],
     [by |-> Main, kind |-> "nl"] >>

\* SWARM[worker_id] where the id is a key: the dict is read, not changed
SubscriptPop(id) ==
  /\ id \in DOMAIN registry
  /\ registry' = [k \in DOMAIN registry \ {id} |-> registry[k]]

Subscript(id) ==
  /\ id \in DOMAIN registry
  /\ registry' = registry

\* SWARM[worker_id] where the id is no key: KeyError leaves the function and
\* reaches its caller before anything else is done
KeyError(id) ==
  /\ id \notin DOMAIN registry
  /\ mpc' = "keyerror"
  /\ UNCHANGED <<envVars, registry, op, workers, command, threads, joined, results,
                 retval, pc, stream, hdr, procVars, line, output_lines, ret,
                 console>>

\* worker = SWARM[worker_id]; return execute_on_worker(worker, cmd)
OnWorker(id, cmd) ==
  \/ Subscript(id) /\ CallExecute(id, cmd, TRUE) /\ UNCHANGED envVars
  \/ KeyError(id)

\* lines 127-130
SyncAll ==
  /\ entry' = [name |-> "sync_all", worker_id |-> <<>>]
  /\ ParallelEntry(MainPrint("syncing"), RegistryList, "git pull origin dev")
  /\ UNCHANGED <<envVars, registry>>

\* lines 147-154
StatusCheck ==
  /\ entry' = [name |-> "status_check", worker_id |-> <<>>]
  /\ ParallelEntry(MainPrint("checking"), RegistryList,
                   "git status && echo '---' && git branch")
  /\ UNCHANGED <<envVars, registry>>

\* lines 132-135
BuildOnWorker(id) ==
  /\ mpc = "idle"
  /\ entry' = [name |-> "build_on_worker", worker_id |-> <<id>>]
  /\ OnWorker(id, "npm run build")

\* lines 137-140
LintOnWorker(id) ==
  /\ mpc = "idle"
  /\ entry' = [name |-> "lint_on_worker", worker_id |-> <<id>>]
  /\ OnWorker(id, "npm run lint")

\* lines 142-145
TestOnWorker(id) ==
  /\ mpc = "idle"
  /\ entry' = [name |-> "test_on_worker", worker_id |-> <<id>>]
  /\ OnWorker(id, "npm test")

\* line 158: `if worker_id:` is the truth value of an Optional[int]
Truthy(x) == x # <<>> /\ x[1] # 0

\* lines 156-163
CustomCommand(x, cmd) ==
  /\ mpc = "idle"
  /\ entry' = [name |-> "custom_command", worker_id |-> x]
  /\ IF Truthy(x)
     THEN OnWorker(x[1], cmd)
     ELSE CallParallel(RegistryList, cmd) /\ UNCHANGED <<envVars, registry>>

Next ==
  \/ \E ws \in WorkerLists, cmd \in Commands :
       CallParallel(ws, cmd) /\ UNCHANGED <<envVars, registry, entry>>
  \/ StartThread
  \/ JoinThread
  \/ ReturnParallel
  \/ \E w \in WorkerIds, cmd \in Commands, s \in BOOLEAN :
       CallExecute(w, cmd, s) /\ UNCHANGED <<envVars, registry, entry>>
  \/ ExecuteReturn
  \/ ExecuteRaise
  \/ \E w \in WorkerIds :
       \/ PrintHeader(w)
       \/ Popen(w)
       \/ PopenRaise(w)
       \/ ReadLine(w)
       \/ ReadEOF(w)
       \/ PrintLine(w)
       \/ AppendLine(w)
       \/ Wait(w)
       \/ Communicate(w)
       \/ Store(w)
       \/ Close(w)
       \/ Drop(w)
       \/ \E fd \in Fds : Produce(w, fd)
       \/ \E c \in CommandCodes : Exit(w, c)

Spec == Init /\ [][Next]_vars

\* ------------------------------------------------------------- properties
Range(s) == {s[k] : k \in 1..Len(s)}

Writers == WorkerIds \cup {Main}

\* the invocation of worker w has returned its tuple
Returned(w) == pc[w] \in {"returned", "done"}

\* execute_parallel has returned to its caller
ParallelReturned == op = "parallel" /\ mpc = "returned"

\* the ids of the workers the running call was given
Dispatched == {SWARM[w].id : w \in Range(workers)}

\* C1: on return from execute_parallel the key set of the result set is the
\* set of ids of the workers dispatched to and it has one entry per worker of
\* the list, whatever the outcome of each worker.
C1_OneEntryPerWorker ==
  ParallelReturned =>
    /\ DOMAIN retval = Dispatched
    /\ Cardinality(DOMAIN retval) = Len(workers)

\* C2: join barrier.  When execute_parallel has returned, no launched worker
\* task is still executing, every worker of the list had its task launched,
\* and every task whose invocation came back with a result has written it:
\* the returned set holds it under the worker's id.
C2_JoinBarrier ==
  ParallelReturned =>
    \A w \in Range(workers) :
      /\ pc[w] # "none"
      /\ ~Alive(w)
      /\ Returned(w) =>
           /\ SWARM[w].id \in DOMAIN retval
           /\ retval[SWARM[w].id] = ret[w]

\* all three tasks were joined after running to their results
C2_Witness ==
  /\ ParallelReturned
  /\ Len(workers) = 3
  /\ \A w \in Range(workers) : pc[w] = "done" /\ produced[w] # <<>>

\* C3: failure isolation, stated on one run.  The result of every invocation
\* of a broadcast is the exit status and the lines of its own remote process
\* and of nothing else, so it is the same in any two runs in which that
\* process behaves alike; a task ends only by returning or by its own launch
\* failing; once the call has returned every worker of the list was started
\* and ran to its end; and the call itself never ends in an exception.
C3_FailureIsolation ==
  op = "parallel" =>
    /\ mpc # "raised"
    /\ \A w \in WorkerIds :
         /\ Returned(w) => ret[w] = <<status[w], produced[w]>>
         /\ pc[w] = "raised" => proc[w] = "none"
    /\ mpc = "returned" =>
         \A w \in Range(workers) : pc[w] \in {"done", "raised"}

\* the call returned with one worker's launch failed, one worker's command
\* failed and one worker's command succeeded with output
C3_Witness ==
  /\ ParallelReturned
  /\ pc[1] = "raised"
  /\ pc[2] = "done" /\ status[2] = 1
  /\ pc[3] = "done" /\ status[3] = 0 /\ produced[3] # <<>>
  /\ retval[3] = <<0, produced[3]>>

\* C4: execute_on_worker always returns a result and never lets a fault reach
\* its caller; a failure of the remote-execution channel comes back as a
\* non-zero exit code with a non-empty diagnostic output.
C4_AlwaysReturns ==
  /\ mpc # "raised"
  /\ \A w \in WorkerIds :
       /\ pc[w] # "raised"
       /\ (Returned(w) /\ status[w] = SshError) =>
            ret[w][1] # 0 /\ ret[w][2] # <<>>

\* C5: fan-out.  While a worker of the list is not started yet no thread has
\* been joined, and the next start is enabled whatever state the tasks
\* started so far are in.
C5_FanOut ==
  (op = "parallel" /\ Len(threads) < Len(workers)) =>
    /\ joined = 0
    /\ ENABLED StartThread

\* all three invocations are in progress at once, none joined
C5_Witness ==
  /\ op = "parallel"
  /\ Len(workers) = 3
  /\ joined = 0
  /\ \A w \in Range(workers) : pc[w] = "read" /\ proc[w] = "running"

\* the lines writer x forwarded to the console, in the order written
ConsoleLines(x) == SelectSeq(console[x], LAMBDA c : c.kind = "line")

LinesOf(chunks) == [k \in 1..Len(chunks) |-> chunks[k].line]

\* C6: per-worker line order.  In streaming mode the accumulator holds, in
\* every state and whatever the other workers do, the first lines its worker's
\* process printed, in the order printed; the output returned is all of them.
C6_LineOrder ==
  \A w \in WorkerIds :
    stream[w] =>
      /\ Len(output_lines[w]) <= Len(produced[w])
      /\ output_lines[w] = SubSeq(produced[w], 1, Len(output_lines[w]))
      /\ Returned(w) => ret[w][2] = produced[w]

\* two workers of a broadcast each came back with the two lines they printed
C6_Witness ==
  /\ ParallelReturned
  /\ \E w, u \in Range(workers) :
       /\ w # u
       /\ pc[w] = "done" /\ Len(produced[w]) = 2 /\ retval[w][2] = produced[w]
       /\ pc[u] = "done" /\ Len(produced[u]) = 2

\* C7: live forwarding.  When a streaming invocation has returned, the console
\* lines carrying its worker's id as prefix are the lines its process printed,
\* in the order printed, written by that invocation, and they are the lines of
\* the output returned.
C7_LiveForwarding ==
  \A w \in WorkerIds :
    (stream[w] /\ Returned(w)) =>
      /\ LinesOf(ConsoleLines(w)) = produced[w]
      /\ LinesOf(ConsoleLines(w)) = ret[w][2]
      /\ \A k \in 1..Len(ConsoleLines(w)) :
           ConsoleLines(w)[k].prefix = SWARM[w].id
      /\ \A x \in Writers \ {w} :
           \A k \in 1..Len(ConsoleLines(x)) :
             ConsoleLines(x)[k].prefix # SWARM[w].id

\* a worker of a broadcast of three returned after forwarding two lines
C7_Witness ==
  /\ op = "parallel"
  /\ Len(workers) = 3
  /\ Returned(1)
  /\ Len(ConsoleLines(1)) = 2
  /\ ConsoleLines(3) # <<>>

\* writer x has written the text of a line and not yet its end
LineOpen(x) ==
  /\ console[x] # <<>>
  /\ console[x][Len(console[x])].kind = "text"

\* C8: line-level atomicity.  While a writer has a line open on the console
\* no other writer writes to the console.
C8_LineAtomic ==
  [][\A x \in Writers :
       LineOpen(x) => \A y \in Writers \ {x} : console'[y] = console[y]]_vars

\* C9: no truncation on failure.  A result returned for a process that exited
\* with a non-zero status carries exactly that status and every line the
\* process printed, once each.
C9_NoTruncation ==
  \A w \in WorkerIds :
    (Returned(w) /\ status[w] # 0) =>
      /\ ret[w][1] = status[w]
      /\ Len(ret[w][2]) = Len(produced[w])
      /\ Range(ret[w][2]) = Range(produced[w])

\* a command printed two lines, exited with 1, and its result is back
C9_Witness ==
  \E w \in WorkerIds :
    /\ Returned(w)
    /\ status[w] = 1
    /\ Len(produced[w]) = 2
    /\ ret[w][1] = 1

\* C10: in both modes the output of a result is the lines of stdout and stderr
\* in the order the process printed them.
C10_ProducedOrder ==
  \A w \in WorkerIds : Returned(w) => ret[w][2] = produced[w]

\* ------------------------------------------------------------- the operator-facing functions
TaskStep(w) ==
  \/ PrintHeader(w)
  \/ Popen(w)
  \/ PopenRaise(w)
  \/ ReadLine(w)
  \/ ReadEOF(w)
  \/ PrintLine(w)
  \/ AppendLine(w)
  \/ Wait(w)
  \/ Store(w)
  \/ Close(w)
  \/ Drop(w)
  \/ \E fd \in Fds : Produce(w, fd)
  \/ \E c \in CommandCodes : Exit(w, c)

NextMain ==
  \/ SyncAll
  \/ StatusCheck
  \/ \E id \in InputIds : BuildOnWorker(id)
  \/ \E id \in InputIds : LintOnWorker(id)
  \/ \E id \in InputIds : TestOnWorker(id)
  \/ \E x \in OptionalIds, cmd \in CustomCommands : CustomCommand(x, cmd)
  \/ StartThread
  \/ JoinThread
  \/ ReturnParallel
  \/ ExecuteReturn
  \/ ExecuteRaise
  \/ \E w \in WorkerIds : TaskStep(w)

SpecMain == Init /\ [][NextMain]_vars

\* ------------------------------------------------------------- properties, continued
\* the id the operator supplied is no key of the registry
AbsentIdSupplied ==
  entry.worker_id # <<>> /\ entry.worker_id[1] \notin DOMAIN registry

\* C11 as claimed: a captured-mode invocation writes nothing to the console.
C11_Silent ==
  \A w \in WorkerIds : ~stream[w] => console[w] = <<>>

\* C11, amended: a captured-mode invocation writes its header block and
\* nothing else; it forwards no line of the remote output, writes nothing once
\* the process is started, and hands the output to its caller only in the
\* result, which exists only after the process has exited.
C11_CapturedForwardsNothing ==
  \A w \in WorkerIds :
    ~stream[w] =>
      /\ ConsoleLines(w) = <<>>
      /\ \A k \in 1..Len(console[w]) : console[w][k] = HeaderChunk(w, k - 1)
      /\ Len(console[w]) <= 2 * HeaderPrints
      /\ proc[w] # "none" => Len(console[w]) = 2 * HeaderPrints
      /\ ret[w] # NoRet => (proc[w] = "exited" /\ Returned(w))

\* a captured-mode call returned the two lines its command printed
C11_Witness ==
  \E w \in WorkerIds :
    /\ ~stream[w]
    /\ Returned(w)
    /\ Len(produced[w]) = 2
    /\ Len(ret[w][2]) = 2

\* C12: when the id given to an operator-facing function is absent from the
\* registry the function fails with the lookup's error, nothing is dispatched
\* and no remote invocation is begun.
C12_WorkerNotFound ==
  AbsentIdSupplied =>
    /\ mpc = "keyerror"
    /\ op = "none"
    /\ \A w \in WorkerIds : pc[w] = "none" /\ proc[w] = "none"
    /\ \A x \in Writers : console[x] = <<>>

\* C13: custom_command with an id runs the command on that one worker and on
\* no other and never broadcasts; without an id it broadcasts to every worker
\* of the registry.
C13_Routing ==
  entry.name = "custom_command" =>
    IF entry.worker_id # <<>>
    THEN /\ op # "parallel"
         /\ \A w \in WorkerIds : pc[w] # "none" => w = entry.worker_id[1]
    ELSE /\ op = "parallel"
         /\ workers = RegistryList

\* C14: the registry is the one built at start-up, whatever was looked up,
\* executed or broadcast since.
C14_RegistryReadOnly ==
  registry = SWARM

\* a single-worker function looked its worker up, ran and returned
C14_Witness ==
  /\ entry.name = "build_on_worker"
  /\ mpc = "returned"
  /\ retval[1] = 0

\* C15: every key of the registry maps to the worker carrying that id, the
\* ids are pairwise distinct, and a function given a registered id runs on the
\* worker whose id it is.
C15_LookupById ==
  /\ \A i \in DOMAIN registry : registry[i].id = i
  /\ \A i, j \in DOMAIN registry : i # j => registry[i].id # registry[j].id
  /\ (op = "execute" /\ entry.worker_id # <<>>) =>
       /\ Len(workers) = 1
       /\ registry[workers[1]].id = entry.worker_id[1]
       /\ \A w \in WorkerIds : pc[w] # "none" => SWARM[w].id = entry.worker_id[1]

\* lint_on_worker(3) ran on worker 3 and returned
C15_Witness ==
  /\ entry = [name |-> "lint_on_worker", worker_id |-> <<3>>]
  /\ mpc = "returned"
  /\ pc[3] = "done"

\* C16: result keying.  On return from execute_parallel every worker whose
\* invocation returned has, under its own id, the status and the lines of its
\* own process, and every entry of the set is the result of the worker whose
\* id is its key.
C16_ResultKeying ==
  ParallelReturned =>
    /\ \A w \in Range(workers) :
         Returned(w) =>
           /\ SWARM[w].id \in DOMAIN retval
           /\ retval[SWARM[w].id] = <<status[w], produced[w]>>
           /\ \A k \in 1..Len(retval[SWARM[w].id][2]) :
                retval[SWARM[w].id][2][k].w = w
    /\ \A k \in DOMAIN retval :
         \E w \in Range(workers) : SWARM[w].id = k /\ retval[k] = ret[w]

\* three workers each succeeded with one line: {1:(0,l), 2:(0,l), 3:(0,l)}
C16_Witness ==
  /\ ParallelReturned
  /\ workers = <<1, 2, 3>>
  /\ DOMAIN retval = {1, 2, 3}
  /\ \A i \in {1, 2, 3} : retval[i] = <<0, <<[w |-> i, n |-> 1]>>>>

\* ------------------------------------------------------------- scheduling
\* the steps of the main thread inside a call
MainStep ==
  \/ StartThread
  \/ JoinThread
  \/ ReturnParallel
  \/ ExecuteReturn
  \/ ExecuteRaise

\* the steps of the thread that runs the invocation on worker w
ThreadStep(w) ==
  \/ PrintHeader(w)
  \/ Popen(w)
  \/ PopenRaise(w)
  \/ ReadLine(w)
  \/ ReadEOF(w)
  \/ PrintLine(w)
  \/ AppendLine(w)
  \/ Wait(w)
  \/ Communicate(w)
  \/ Store(w)

\* the remote process of worker w ends
Terminates(w) == \E c \in CommandCodes : Exit(w, c)

\* Every thread that can run is scheduled, and every remote process that was
\* started ends.
SpecLive ==
  /\ Init
  /\ [][Next]_vars
  /\ WF_<<mpc, threads, joined>>(MainStep)
  /\ \A w \in WorkerIds :
       /\ WF_<<pc, hdr, line, output_lines>>(ThreadStep(w))
       /\ WF_<<proc, status>>(Terminates(w))

\* C17: liveness of the broadcast.  When the threads are scheduled fairly and
\* every remote process that was started ends, a call of execute_parallel
\* returns; and whenever neither the main thread nor any task of a running
\* call can take a step, some remote process has not ended yet.
C17_BroadcastReturns ==
  /\ (op = "parallel") ~> ParallelReturned
  /\ [](  (/\ op = "parallel"
           /\ mpc = "parallel"
           /\ ~ENABLED MainStep
           /\ \A w \in WorkerIds : ~ENABLED ThreadStep(w))
        => \E w \in Range(threads) : proc[w] \in {"running", "closed"})

\* a broadcast to three workers returned after one task had raised, one
\* process had failed and one had succeeded
C17_Witness ==
  /\ ParallelReturned
  /\ workers = <<1, 2, 3>>
  /\ joined = 3
  /\ pc[1] = "raised"
  /\ status[2] = 1
  /\ status[3] = 0

\* the functions that broadcast, called as the claim names them
BroadcastEntry ==
  \/ entry.name \in {"sync_all", "status_check"}
  \/ entry.name = "custom_command" /\ entry.worker_id = <<>>

\* C18: the list of all workers is the three registered workers, each once,
\* in the order of their registration, in every state; sync_all, status_check
\* and custom_command without an id dispatch to exactly that list, and the
\* threads are started in its order.
C18_BroadcastOrder ==
  /\ RegistryList = <<1, 2, 3>>
  /\ \A i \in 1..Len(RegistryList) : registry[RegistryList[i]].id = i
  /\ BroadcastEntry =>
       /\ op = "parallel"
       /\ workers = <<1, 2, 3>>
       /\ threads = SubSeq(workers, 1, Len(threads))
       /\ \A w \in WorkerIds : pc[w] # "none" => w \in Range(threads)
       /\ mpc = "returned" => threads = <<1, 2, 3>>

\* status_check has started its three threads
C18_Witness ==
  /\ entry.name = "status_check"
  /\ threads = <<1, 2, 3>>
  /\ \A w \in WorkerIds : pc[w] # "none"

\* C19: within a call of execute_parallel every change of the result set is
\* one task adding one key that the set did not have: no key is written
\* twice, and no two tasks write the same key.
C19_NoKeyAliasing ==
  [][ (op = "parallel" /\ op' = "parallel" /\ results' # results) =>
        \E w \in Range(threads) :
          /\ pc[w] = "returned" /\ pc'[w] = "done"
          /\ SWARM[w].id \notin DOMAIN results
          /\ DOMAIN results' = DOMAIN results \cup {SWARM[w].id}
          /\ \A k \in DOMAIN results : results'[k] = results[k]
          /\ \A v \in Range(threads) \ {w} : SWARM[v].id # SWARM[w].id ]_vars

\* three tasks have each written their key
C19_Witness ==
  /\ op = "parallel"
  /\ mpc = "parallel"
  /\ DOMAIN results = {1, 2, 3}
  /\ \A w \in WorkerIds : pc[w] = "done"

\* the number of invocations begun on worker w: each begins with the line
\* that names the worker
Invocations(w) ==
  Len(SelectSeq(console[w],
                LAMBDA c : c.kind = "text" /\ c = HeaderChunk(w, 2)))

\* C20: no retry.  No worker is invoked twice in one call, whatever its
\* outcome; a returned call invoked each worker of its list once and no other
\* worker; every invocation of a broadcast is a streaming one.
C20_NoRetry ==
  /\ \A w \in WorkerIds :
       /\ Invocations(w) <= 1
       /\ pc[w] \notin {"none", "header"} => Invocations(w) = 1
       /\ w \notin Range(threads) \cup Range(workers) => Invocations(w) = 0
  /\ op = "parallel" => \A w \in Range(threads) : stream[w]
  /\ mpc \in {"returned", "raised"} =>
       \A w \in Range(workers) : Invocations(w) = 1

\* a broadcast returned although one worker failed with a non-zero status and
\* another with a transport failure; each was invoked once
C20_Witness ==
  /\ ParallelReturned
  /\ entry.name = "sync_all"
  /\ status[1] = 1
  /\ status[2] = SshError
  /\ \A w \in WorkerIds : Invocations(w) = 1

\* the workers of the running call whose invocation raised
RaisedWorkers == {w \in Range(workers) : pc[w] = "raised"}

\* C23: when the invocation of a worker raised inside its task, the call
\* does not raise, the remaining workers can still be started and the raised
\* thread can be joined; on return every worker was started and joined and
\* the keys of the result set are the ids of the workers whose invocation
\* returned a result.
C23_RaiseInTask ==
  (op = "parallel" /\ RaisedWorkers # {}) =>
    /\ mpc \in {"parallel", "returned"}
    /\ (mpc = "parallel" /\ Len(threads) < Len(workers)) => ENABLED StartThread
    /\ (mpc = "parallel" /\ StartLoopDone /\ joined < Len(threads)
          /\ threads[joined + 1] \in RaisedWorkers) => ENABLED JoinThread
    /\ mpc = "returned" =>
         /\ threads = workers
         /\ joined = Len(workers)
         /\ \A w \in Range(workers) : pc[w] \in {"done", "raised"}
         /\ DOMAIN retval =
              {SWARM[w].id : w \in {v \in Range(workers) : Returned(v)}}

\* the second of three workers raised; the call returned the other two
C23_Witness ==
  /\ ParallelReturned
  /\ workers = <<1, 2, 3>>
  /\ RaisedWorkers = {2}
  /\ DOMAIN retval = {1, 3}

\* C24: a streaming invocation reaches its wait only at the end of the
\* stream, and returns only when moreover the process has exited; the exit
\* code of the result is the status the process exited with, never the
\* unset value.
C24_ReturnAfterEofAndExit ==
  \A w \in WorkerIds :
    stream[w] =>
      /\ pc[w] \in {"wait", "returned", "done"} =>
           /\ proc[w] \in {"closed", "exited"}
           /\ pipe[w].out = <<>>
           /\ Len(output_lines[w]) = Len(produced[w])
      /\ Returned(w) =>
           /\ proc[w] = "exited"
           /\ ret[w][1] = status[w]
           /\ ret[w][1] \in CommandCodes \cup {SshError}

\* a direct streaming call returned the status 0 and the one line of its
\* process
C24_Witness ==
  \E w \in WorkerIds :
    /\ op = "execute"
    /\ stream[w]
    /\ Returned(w)
    /\ ret[w] = <<0, <<[w |-> w, n |-> 1]>>>>

\* C25: inside a call of execute_parallel the result set is changed only by
\* a task, by the store of the result its own invocation returned, and never
\* by a step of the dispatching thread; the dispatching thread reads it only
\* once, after the last join, when no task is alive, and the set does not
\* change after that.
C25_NoPartialRead ==
  [][ (op = "parallel" /\ op' = "parallel") =>
        /\ results' # results =>
             /\ mpc' = mpc /\ threads' = threads /\ joined' = joined
             /\ retval' = retval
             /\ \E w \in Range(threads) :
                  /\ pc[w] = "returned" /\ pc'[w] = "done"
                  /\ ret[w] # NoRet
                  /\ results' = (SWARM[w].id :> ret[w]) @@ results
        /\ retval' # retval =>
             /\ threads = workers
             /\ joined = Len(threads)
             /\ \A w \in Range(threads) : ~Alive(w)
             /\ retval' = results
        /\ mpc = "returned" => results' = results /\ retval' = retval ]_vars

\* a result set with two of three entries, one task still running, and the
\* dispatching thread at the first join
C25_Witness ==
  /\ op = "parallel"
  /\ mpc = "parallel"
  /\ threads = <<1, 2, 3>>
  /\ joined = 0
  /\ DOMAIN results = {2, 3}
  /\ pc[1] = "read"

\* C26: in streaming mode the accumulator is a prefix of the lines already
\* forwarded to the console, shorter by one line exactly between the print
\* of a line and its append, and as long otherwise.
C26_PrintBeforeAppend ==
  \A w \in WorkerIds :
    stream[w] =>
      /\ Len(output_lines[w]) <= Len(ConsoleLines(w))
      /\ output_lines[w] =
           SubSeq(LinesOf(ConsoleLines(w)), 1, Len(output_lines[w]))
      /\ Len(ConsoleLines(w)) - Len(output_lines[w]) =
           IF pc[w] = "append" THEN 1 ELSE 0

\* the second line is on the console and not yet in the accumulator
C26_Witness ==
  \E w \in WorkerIds :
    /\ stream[w]
    /\ pc[w] = "append"
    /\ Len(ConsoleLines(w)) = 2
    /\ Len(output_lines[w]) = 1

\* C27: execute_parallel with an empty list starts no thread and no
\* invocation, no worker writes to the console, the return is enabled at
\* once, and the set returned is empty.
C27_EmptyList ==
  (op = "parallel" /\ workers = <<>>) =>
    /\ threads = <<>>
    /\ results = <<>>
    /\ \A w \in WorkerIds :
         pc[w] = "none" /\ proc[w] = "none" /\ console[w] = <<>>
    /\ mpc = "parallel" => ENABLED ReturnParallel
    /\ mpc = "returned" => DOMAIN retval = {}

\* the call with the empty list returned
C27_Witness ==
  /\ ParallelReturned
  /\ workers = <<>>
  /\ DOMAIN retval = {}
  /\ Len(console[Main]) = 2

\* C28: every output line on the console stands after the complete header
\* block of its invocation: separator, worker, command, separator.
C28_HeaderFirst ==
  \A w \in WorkerIds :
    \A k \in 1..Len(console[w]) :
      console[w][k].kind = "line" =>
        /\ k > 2 * HeaderPrints
        /\ \A j \in 1..(2 * HeaderPrints) : console[w][j] = HeaderChunk(w, j - 1)
        /\ hdr[w] = 2 * HeaderPrints

\* a header block followed by two output lines
C28_Witness ==
  \E w \in WorkerIds :
    /\ Len(console[w]) = 2 * HeaderPrints + 2
    /\ console[w][2 * HeaderPrints + 1].kind = "line"
    /\ console[w][2 * HeaderPrints + 2].kind = "line"

\* ------------------------------------------------------------- logical time
\* Every step of a thread takes no time; time passes only while remote
\* commands run, for all of them at once.  The command of worker w runs for
\* delay[w] units and then ends; it only waits and prints nothing, so the
\* only line a task may read is the diagnostic of ssh.
Delays == 1..MaxDelay

\* one delay for each worker of the list
DelaysFor(ws) ==
  {d \in [WorkerIds -> 0..MaxDelay] :
     \A w \in WorkerIds : (d[w] = 0) <=> (w \notin Range(ws))}

\* execute_parallel called with commands of known running times
CallTimed(ws, cmd, d) ==
  /\ ParallelEntry(<<>>, ws, cmd)
  /\ delay' = d
  /\ UNCHANGED <<now, ran, held, registry, entry>>

Running(w) == proc[w] \in {"running", "closed"}

\* the remote command of worker w ends when its time is up
TimedExit(w, c) ==
  /\ ran[w] = delay[w]
  /\ Exit(w, c)

\* a step that is taken before any time passes
Instant ==
  \/ MainStep
  \/ \E w \in WorkerIds : ThreadStep(w)
  \/ \E w \in WorkerIds, c \in CommandCodes : TimedExit(w, c)

\* one unit of time passes for every running command
Tick ==
  /\ mpc = "parallel"
  /\ ~ENABLED Instant
  /\ \E w \in WorkerIds : Running(w)
  /\ \A w \in WorkerIds : Running(w) => ran[w] < delay[w]
  /\ now' = now + 1
  /\ ran' = [w \in WorkerIds |-> IF Running(w) THEN ran[w] + 1 ELSE ran[w]]
  /\ UNCHANGED <<delay, held, registry, entry, mpc, op, workers, command,
                 threads, joined, results, retval, pc, stream, hdr, procVars,
                 line, output_lines, ret, console>>

NextTime ==
  \/ \E ws \in WorkerLists, cmd \in Commands :
       \E d \in DelaysFor(ws) : CallTimed(ws, cmd, d)
  \/ StartThread
  \/ JoinThread
  \/ ReturnParallel
  \/ Tick
  \/ \E w \in WorkerIds :
       \/ PrintHeader(w)
       \/ Popen(w)
       \/ PopenRaise(w)
       \/ ReadLine(w)
       \/ ReadEOF(w)
       \/ PrintLine(w)
       \/ AppendLine(w)
       \/ Wait(w)
       \/ Store(w)
       \/ Close(w)
       \/ Drop(w)
       \/ \E c \in CommandCodes : TimedExit(w, c)

SpecTime == Init /\ [][NextTime]_vars

\* the running time of the slowest command of the call
Slowest ==
  IF workers = <<>> THEN 0
  ELSE CHOOSE m \in 0..MaxDelay :
         /\ \E w \in Range(workers) : delay[w] = m
         /\ \A w \in Range(workers) : delay[w] <= m

\* the commands of the call ran their full time, one after the other
SumOfDelays == delay[1] + delay[2] + delay[3]

\* C21: parallelism in logical time.  The time a broadcast has taken never
\* exceeds the running time of its slowest command, and when it has returned
\* with every command having run its full time it has taken exactly that
\* time, not the sum of the running times.
C21_ParallelTime ==
  op = "parallel" =>
    /\ now <= Slowest
    /\ \A w \in WorkerIds : ran[w] <= now
    /\ (mpc = "returned" /\ \A w \in Range(workers) : status[w] \in CommandCodes)
         => now = Slowest

\* three workers of one unit each: the broadcast returned after one unit
C21_Witness ==
  /\ ParallelReturned
  /\ workers = <<1, 2, 3>>
  /\ \A w \in WorkerIds : delay[w] = 1 /\ status[w] = 0
  /\ now = 1
  /\ SumOfDelays = 3

\* ------------------------------------------------------------- call after call
\* The caller keeps the result set a broadcast returned and calls again.
\* What belonged to the call that is over (its frames, its threads, its
\* processes) is gone; the screen is cleared; the dict the call built lives on
\* as the object the caller keeps.
Again ==
  /\ mpc \in {"returned", "raised"}
  /\ op = "parallel" => Len(held) < MaxHeld
  /\ held' = IF op = "parallel" THEN Append(held, retval) ELSE held
  /\ mpc' = "idle"
  /\ op' = "none"
  /\ workers' = <<>>
  /\ command' = ""
  /\ threads' = <<>>
  /\ joined' = 0
  /\ retval' = <<>>
  /\ pc' = [w \in WorkerIds |-> "none"]
  /\ stream' = [w \in WorkerIds |-> TRUE]
  /\ hdr' = [w \in WorkerIds |-> 0]
  /\ proc' = [w \in WorkerIds |-> "none"]
  /\ status' = [w \in WorkerIds |-> -1]
  /\ pipe' = [w \in WorkerIds |-> [out |-> <<>>, err |-> <<>>]]
  /\ produced' = [w \in WorkerIds |-> <<>>]
  /\ line' = [w \in WorkerIds |-> NoLine]
  /\ output_lines' = [w \in WorkerIds |-> <<>>]
  /\ ret' = [w \in WorkerIds |-> NoRet]
  /\ console' = [x \in WorkerIds \cup {Main} |-> <<>>]
  /\ UNCHANGED <<results, now, delay, ran, registry, entry>>

\* calls one after the other, of commands that print nothing
NextSeq ==
  \/ \E ws \in WorkerLists, cmd \in Commands :
       CallParallel(ws, cmd) /\ UNCHANGED <<envVars, registry, entry>>
  \/ \E w \in WorkerIds, cmd \in Commands, s \in BOOLEAN :
       CallExecute(w, cmd, s) /\ UNCHANGED <<envVars, registry, entry>>
  \/ Again
  \/ StartThread
  \/ JoinThread
  \/ ReturnParallel
  \/ ExecuteReturn
  \/ ExecuteRaise
  \/ \E w \in WorkerIds :
       \/ PrintHeader(w)
       \/ Popen(w)
       \/ PopenRaise(w)
       \/ ReadEOF(w)
       \/ Wait(w)
       \/ Communicate(w)
       \/ Store(w)
       \/ \E c \in CommandCodes : Exit(w, c)

SpecSeq == Init /\ [][NextSeq]_vars

\* C22: no state carries over.  In every call of execute_parallel, whatever
\* calls came before it, every entry of the result set was stored by a task
\* of this call and is what that task's invocation returned, and the set
\* returned is that set; a result set the caller keeps from an earlier call
\* is never changed by a later call.
C22_NoCarryOver ==
  /\ [](op = "parallel" =>
          /\ \A k \in DOMAIN results :
               \E w \in Range(threads) :
                 /\ SWARM[w].id = k
                 /\ pc[w] = "done"
                 /\ results[k] = ret[w]
          /\ mpc = "returned" =>
               /\ DOMAIN retval = DOMAIN results
               /\ \A k \in DOMAIN retval : retval[k] = results[k])
  /\ [][\A i \in 1..Len(held) :
          /\ Len(held') >= i
          /\ DOMAIN held'[i] = DOMAIN held[i]
          /\ \A k \in DOMAIN held[i] : held'[i][k] = held[i][k]]_vars

\* a broadcast to the three workers returned and was kept; a later broadcast
\* to worker 3 alone returned only its own entry, with another status
C22_Witness ==
  /\ Len(held) = 1
  /\ DOMAIN held[1] = {1, 2, 3}
  /\ held[1][3][1] = 1
  /\ ParallelReturned
  /\ workers = <<3>>
  /\ DOMAIN retval = {3}
  /\ retval[3][1] = 0

====
